---------------------------- MODULE Spec2Model ----------------------------
(***************************************************************************)
(* Model of net.py, the Netflix EDA dashboard: one script run loads the    *)
(* catalog (line 43), cleans it (lines 48-54) and renders the view named   *)
(* by `choice` (lines 67-318).  Text is a sequence of one-character        *)
(* strings, so that splitting, trimming, digit extraction and ordering are *)
(* computed and not assumed.                                               *)
(***************************************************************************)
EXTENDS Integers, Sequences, FiniteSets, TLC

VARIABLES
    raw,              \* rows of netflix_titles_nov_2019.csv as read_csv parses them
    choice,           \* st.sidebar.radio selection (line 37), "" until read
    df,               \* the DataFrame `df`
    pc,               \* "loaded" | "cleaned" | "done" | "failed"
    raised,           \* source line of the uncaught exception, 0 when none
    genres,           \* line 135
    countries,        \* line 153
    ratings,          \* line 171
    movie_durations,  \* line 189
    tv_seasons,       \* line 209
    actors,           \* line 229
    directors,        \* line 247
    country_df,       \* line 281-282
    country_count     \* line 283-284

vars == <<raw, choice, df, pc, raised, genres, countries, ratings,
          movie_durations, tv_seasons, actors, directors, country_df,
          country_count>>

(***************************************************************************)
(* Bounds                                                                  *)
(***************************************************************************)
MaxRows == 4

(***************************************************************************)
(* Text                                                                    *)
(***************************************************************************)
\* The characters of the model in code point order.
CodePoints ==
    <<" ", ",", "0", "1", "2", "3", "4", "5", "6", "7", "8", "9",
      "A", "B", "C", "D", "E", "F", "G", "H", "I", "J", "K", "L", "M",
      "N", "O", "P", "Q", "R", "S", "T", "U", "V", "W", "X", "Y", "Z",
      "a", "b", "c", "d", "e", "f", "g", "h", "i", "j", "k", "l", "m",
      "n", "o", "p", "q", "r", "s", "t", "u", "v", "w", "x", "y", "z">>

Ord(c) == CHOOSE i \in 1..Len(CodePoints) : CodePoints[i] = c

Digits == {"0", "1", "2", "3", "4", "5", "6", "7", "8", "9"}

Whitespace == {" "}

\* Python's str < str: lexicographic by code point, a proper prefix first.
RECURSIVE StrLess(_, _)
StrLess(a, b) ==
    IF b = <<>> THEN FALSE
    ELSE IF a = <<>> THEN TRUE
    ELSE IF Head(a) = Head(b) THEN StrLess(Tail(a), Tail(b))
    ELSE Ord(Head(a)) < Ord(Head(b))

\* A missing cell (NaN).  "NaN" is no character, so no text equals it.
NaN == <<"NaN">>

\* A float cell: missing, or a number.
NaNf == [isna |-> TRUE]
Float(n) == [isna |-> FALSE, value |-> n]

Min(a, b) == IF a < b THEN a ELSE b

\* str.strip(): drop leading and trailing whitespace.
RECURSIVE LStrip(_)
LStrip(s) ==
    IF s # <<>> /\ Head(s) \in Whitespace THEN LStrip(Tail(s)) ELSE s

RECURSIVE RStrip(_)
RStrip(s) ==
    IF s # <<>> /\ s[Len(s)] \in Whitespace
    THEN RStrip(SubSeq(s, 1, Len(s) - 1)) ELSE s

Strip(s) == RStrip(LStrip(s))

\* str.split(','): the pieces between commas, empty pieces kept.
RECURSIVE Split(_)
Split(s) ==
    IF \A i \in 1..Len(s) : s[i] # "," THEN <<s>>
    ELSE LET c == CHOOSE i \in 1..Len(s) :
                      s[i] = "," /\ \A j \in 1..(i - 1) : s[j] # ","
         IN  <<SubSeq(s, 1, c - 1)>> \o Split(SubSeq(s, c + 1, Len(s)))

\* re '(\d+)': the leftmost maximal run of digits, NaN when there is none.
RECURSIVE DigitRun(_)
DigitRun(s) ==
    IF s # <<>> /\ Head(s) \in Digits
    THEN <<Head(s)>> \o DigitRun(Tail(s)) ELSE <<>>

RECURSIVE ExtractDigits(_)
ExtractDigits(s) ==
    IF s = <<>> THEN NaN
    ELSE IF Head(s) \in Digits THEN DigitRun(s)
    ELSE ExtractDigits(Tail(s))

\* float(): the number a run of decimal digits writes.
RECURSIVE ParseFloat(_)
ParseFloat(run) ==
    IF run = <<>> THEN 0
    ELSE 10 * ParseFloat(SubSeq(run, 1, Len(run) - 1))
         + (Ord(run[Len(run)]) - Ord("0"))


(***************************************************************************)
(* The catalog file                                                        *)
(***************************************************************************)
Sep == <<",", " ">>

Movie   == <<"M", "o", "v", "i", "e">>
TVShow  == <<"T", "V", " ", "S", "h", "o", "w">>
Unknown == <<"U", "n", "k", "n", "o", "w", "n">>
France  == <<"F", "r", "a", "n", "c", "e">>
Belgium == <<"B", "e", "l", "g", "i", "u", "m">>
Drama   == <<"D", "r", "a", "m", "a">>
Comedy  == <<"C", "o", "m", "e", "d", "y">>

\* `name` written n times, comma separated (n >= 1).
RECURSIVE Repeat(_, _)
Repeat(name, n) ==
    IF n <= 1 THEN name ELSE name \o Sep \o Repeat(name, n - 1)

\* A cast of eleven names; all but the first two differ in their number of
\* credits, so that a ranking of ten has to leave one of the two out.
RECURSIVE CreditsFrom(_, _)
CreditsFrom(names, n) ==
    IF Len(names) = 1 THEN Repeat(<<names[1]>>, n)
    ELSE Repeat(<<names[1]>>, n) \o Sep \o CreditsFrom(Tail(names), n + 1)

LongCast ==
    <<"a">> \o Sep
    \o CreditsFrom(<<"b", "c", "d", "e", "f", "g", "h", "i", "j", "k">>, 1)

RowA == [type |-> Movie, director |-> <<"X">>, cast |-> <<"k">> \o Sep \o <<"j">>,
         country |-> France \o Sep \o Belgium, rating |-> <<"P", "G">>,
         duration |-> <<"9", "0", " ", "m", "i", "n">>,
         listed_in |-> Drama \o Sep \o Comedy]

RowB == [type |-> TVShow, director |-> NaN, cast |-> NaN, country |-> NaN,
         rating |-> NaN,
         duration |-> <<"3", " ", "S", "e", "a", "s", "o", "n", "s">>,
         listed_in |-> Drama]

RowC == [type |-> TVShow, director |-> <<"Y">> \o Sep \o <<"X">>,
         cast |-> LongCast,
         country |-> Belgium \o <<" ", ",">> \o France, rating |-> <<"R">>,
         duration |-> NaN, listed_in |-> Comedy]

RowD == [type |-> Movie, director |-> <<"Y">>, cast |-> <<"j">>,
         country |-> Unknown \o Sep \o France, rating |-> <<"P", "G">>,
         duration |-> <<"S", "h", "o", "r", "t">>, listed_in |-> NaN]

RowE == [type |-> Movie, director |-> NaN, cast |-> <<"k">>,
         country |-> Belgium, rating |-> NaN,
         duration |-> <<"1", " ", "h", " ", "3", "0", " ", "m", "i", "n">>,
         listed_in |-> Drama \o Sep \o Comedy]

RowPool == {RowA, RowB, RowC, RowD, RowE}

\* The files the run may find: up to MaxRows rows, in any order.
Tables == UNION {[1..n -> RowPool] : n \in 0..MaxRows}

options ==
    {"Dataset Preview", "Data Cleaning", "Missing Data Heatmap",
     "Movies vs TV Shows", "Titles Added Per Year",
     "Top 10 Genres", "Top 10 Countries",
     "Ratings Distribution",
     "Movie Duration Distribution", "TV Show Season Counts",
     "Top 10 Actors", "Top 10 Directors", "Correlation Heatmap",
     "Global Distribution (Map)"}

(***************************************************************************)
(* DataFrame and Series operations                                         *)
(***************************************************************************)
\* df[col]
Column(d, col) == [i \in 1..Len(d) |-> d[i][col]]

\* df[col] = values (the column is added when the frame has none)
AssignColumn(d, col, values) ==
    [i \in 1..Len(d) |-> [c \in {col} |-> values[i]] @@ d[i]]

\* Mutant of FillNa: the fill is not applied.
FillNaSkipped(s, fill) == s

\* Series.fillna(fill)
FillNa(s, fill) == [i \in 1..Len(s) |-> IF s[i] = NaN THEN fill ELSE s[i]]

\* Whether Series.str exists: a column read with no value at all is float64,
\* and .str raises AttributeError on it; an empty frame's columns are object.
HasStrAccessor(s) == Len(s) = 0 \/ \E i \in 1..Len(s) : s[i] # NaN

\* Series.str.extract(r'(\d+)').astype(float), one cell
DurationNum(v) ==
    IF v = NaN THEN NaNf
    ELSE IF ExtractDigits(v) = NaN THEN NaNf
    ELSE Float(ParseFloat(ExtractDigits(v)))

\* Lines 48-50: the three fillna assignments.
FillUnknown(d) ==
    LET d48 == AssignColumn(d, "cast", FillNa(Column(d, "cast"), Unknown))
        d49 == AssignColumn(d48, "director",
                            FillNa(Column(d48, "director"), Unknown))
    IN  AssignColumn(d49, "country", FillNa(Column(d49, "country"), Unknown))

\* Line 54: the duration_num column.
WithDurationNum(d) ==
    AssignColumn(d, "duration_num",
                 [i \in 1..Len(d) |-> DurationNum(d[i].duration)])

\* Series.dropna()
DropNa(s) == SelectSeq(s, LAMBDA v : v # NaN)

\* Mutant of DropNaFloat: missing numbers are kept.
KeepNaFloat(s) == s

\* Series.dropna() on a float column
DropNaFloat(s) == SelectSeq(s, LAMBDA v : ~v.isna)

\* Mutant of Explode: only the first piece of each row is kept.
ExplodeFirst(s) == [i \in 1..Len(s) |-> Split(s[i])[1]]

\* Series.str.split(',').explode(): every row's pieces, rows top to bottom,
\* pieces left to right.
RECURSIVE Explode(_)
Explode(s) ==
    IF s = <<>> THEN <<>> ELSE Split(Head(s)) \o Explode(Tail(s))

\* Series.str.strip()
StripAll(s) == [i \in 1..Len(s) |-> Strip(s[i])]

\* Series.head(n)
HeadN(s, n) == SubSeq(s, 1, Min(n, Len(s)))

\* Number of cells of s that hold x.
CountOf(s, x) == Cardinality({i \in 1..Len(s) : s[i] = x})

Range(s) == {s[i] : i \in 1..Len(s)}

\* Mutant of Max: the sort runs ascending.
Lowest(S) == CHOOSE m \in S : \A x \in S : m <= x

Max(S) == CHOOSE m \in S : \A x \in S : x <= m

\* The orders in which the sort may leave the labels of one count.
\* value_counts() sorts with sort_values' default kind, quicksort, which
\* promises no order among equal counts, so every arrangement can come out.
Arrangements(labels) ==
    {f \in [1..Cardinality(labels) -> labels] :
        \A i, j \in 1..Cardinality(labels) : i # j => f[i] # f[j]}

\* The (label, count) series over the counts in `levels`, highest count first.
RECURSIVE Rankings(_, _)
Rankings(s, levels) ==
    IF levels = {} THEN {<<>>}
    ELSE LET m == Max(levels)
             tied == {x \in Range(s) : CountOf(s, x) = m}
         IN  {[i \in 1..Len(f) |-> <<f[i], m>>] \o rest :
                 f \in Arrangements(tied), rest \in Rankings(s, levels \ {m})}

\* Series.value_counts(): missing cells dropped, one entry per distinct value,
\* sorted by count descending.  The set of the series the call may return.
ValueCounts(s) ==
    Rankings(DropNa(s), {CountOf(DropNa(s), x) : x \in Range(DropNa(s))})

\* The program's top-N count.
TopN == 10

\* s.dropna().str.split(',').explode().str.strip().value_counts().head(10)
TopLabels(s) ==
    {HeadN(vc, TopN) : vc \in ValueCounts(StripAll(Explode(DropNa(s))))}

\* Mutant of TopValues: value_counts(dropna=False).
TopValuesKeepNa(s) ==
    {HeadN(vc, TopN) : vc \in Rankings(s, {CountOf(s, x) : x \in Range(s)})}

\* s.value_counts().head(10)
TopValues(s) == {HeadN(vc, TopN) : vc \in ValueCounts(s)}

\* df[df['type'] == t]['duration_num'].dropna()
DurationsOfType(d, t) ==
    DropNaFloat(Column(SelectSeq(d, LAMBDA r : r.type = t), "duration_num"))

\* Mutant of DataFrameCopy: country_df = df, both names one frame.
SameFrame(d) == [data |-> d, same_object |-> TRUE]

\* df.copy(): a new frame with the same data.
DataFrameCopy(d) == [data |-> d, same_object |-> FALSE]

\* Mutant of FirstCountry: the last listed country is taken.
LastCountry(v) == Strip(Split(v)[Len(Split(v))])

\* Series.str.split(',').str[0].str.strip(), one cell
FirstCountry(v) == Strip(Split(v)[1])

\* Mutant of KeyLess: the keys are ordered by type first.
KeyLessTypeFirst(a, b) ==
    \/ StrLess(a[2], b[2])
    \/ a[2] = b[2] /\ StrLess(a[1], b[1])

\* Order of the (country, type) group keys.
KeyLess(a, b) ==
    \/ StrLess(a[1], b[1])
    \/ a[1] = b[1] /\ StrLess(a[2], b[2])

RECURSIVE SortKeys(_)
SortKeys(keys) ==
    IF keys = {} THEN <<>>
    ELSE LET k == CHOOSE x \in keys : \A y \in keys \ {x} : KeyLess(x, y)
         IN  <<k>> \o SortKeys(keys \ {k})

\* groupby(['country', 'type']).size().reset_index(name='count'): one row per
\* key present, keys sorted, rows with a missing key left out.
GroupBySize(d) ==
    LET keys == {<<d[i].country, d[i].type>> : i \in 1..Len(d)}
                   \ {k \in {<<d[i].country, d[i].type>> : i \in 1..Len(d)} :
                         k[1] = NaN \/ k[2] = NaN}
        order == SortKeys(keys)
    IN  [n \in 1..Len(order) |->
            [country |-> order[n][1], type |-> order[n][2],
             count |-> Cardinality({i \in 1..Len(d) :
                          <<d[i].country, d[i].type>> = order[n]})]]

\* Mutant of DropUnknown: the filter of line 284 is left out.
KeepUnknown(cc) == cc

\* country_count[country_count['country'] != 'Unknown']
DropUnknown(cc) == SelectSeq(cc, LAMBDA g : g.country # Unknown)

(***************************************************************************)
(* The script                                                              *)
(***************************************************************************)
NoResult == <<>>

Init ==
    /\ raw \in Tables
    /\ choice = ""
    /\ df = raw
    /\ pc = "loaded"
    /\ raised = 0
    /\ genres = NoResult
    /\ countries = NoResult
    /\ ratings = NoResult
    /\ movie_durations = NoResult
    /\ tv_seasons = NoResult
    /\ actors = NoResult
    /\ directors = NoResult
    /\ country_df = NoResult
    /\ country_count = NoResult

results == <<genres, countries, ratings, movie_durations, tv_seasons, actors,
             directors, country_df, country_count>>

\* Lines 48-54.  date_added, year_added and release_year (lines 51-53) are
\* columns the model does not carry.
DataCleaning ==
    /\ pc = "loaded"
    /\ IF HasStrAccessor(Column(FillUnknown(df), "duration"))
       THEN /\ df' = WithDurationNum(FillUnknown(df))
            /\ pc' = "cleaned"
            /\ raised' = 0
       ELSE /\ df' = FillUnknown(df)
            /\ pc' = "failed"
            /\ raised' = 54
    /\ UNCHANGED <<raw, choice, results>>

\* The views.  The selection of line 37 is drawn from `options` where the
\* dispatch of lines 67-280 reads it: nothing before line 67 depends on it.

\* A view that only draws: no name of the script is assigned.
Render(view) ==
    /\ pc = "cleaned"
    /\ view \in options
    /\ choice' = view
    /\ pc' = "done"
    /\ UNCHANGED <<raw, df, raised, results>>

DatasetPreview == Render("Dataset Preview")

DataCleaningInfo == Render("Data Cleaning")

MissingDataHeatmap == Render("Missing Data Heatmap")

MoviesVsTVShows == Render("Movies vs TV Shows")

TitlesAddedPerYear == Render("Titles Added Per Year")

CorrelationHeatmap == Render("Correlation Heatmap")

Top10Genres ==
    /\ pc = "cleaned"
    /\ choice' = "Top 10 Genres"
    /\ IF HasStrAccessor(Column(df, "listed_in"))
       THEN /\ genres' \in TopLabels(Column(df, "listed_in"))
            /\ pc' = "done"
            /\ raised' = 0
       ELSE /\ genres' = genres
            /\ pc' = "failed"
            /\ raised' = 135
    /\ UNCHANGED <<raw, df, countries, ratings, movie_durations,
                   tv_seasons, actors, directors, country_df, country_count>>

Top10Countries ==
    /\ pc = "cleaned"
    /\ choice' = "Top 10 Countries"
    /\ countries' \in TopLabels(Column(df, "country"))
    /\ pc' = "done"
    /\ UNCHANGED <<raw, df, raised, genres, ratings, movie_durations,
                   tv_seasons, actors, directors, country_df, country_count>>

RatingsDistribution ==
    /\ pc = "cleaned"
    /\ choice' = "Ratings Distribution"
    /\ ratings' \in TopValues(Column(df, "rating"))
    /\ pc' = "done"
    /\ UNCHANGED <<raw, df, raised, genres, countries, movie_durations,
                   tv_seasons, actors, directors, country_df, country_count>>

MovieDurationDistribution ==
    /\ pc = "cleaned"
    /\ choice' = "Movie Duration Distribution"
    /\ movie_durations' = DurationsOfType(df, Movie)
    /\ pc' = "done"
    /\ UNCHANGED <<raw, df, raised, genres, countries, ratings,
                   tv_seasons, actors, directors, country_df, country_count>>

TVShowSeasonCounts ==
    /\ pc = "cleaned"
    /\ choice' = "TV Show Season Counts"
    /\ tv_seasons' = DurationsOfType(df, TVShow)
    /\ pc' = "done"
    /\ UNCHANGED <<raw, df, raised, genres, countries, ratings,
                   movie_durations, actors, directors, country_df,
                   country_count>>

Top10Actors ==
    /\ pc = "cleaned"
    /\ choice' = "Top 10 Actors"
    /\ actors' \in TopLabels(Column(df, "cast"))
    /\ pc' = "done"
    /\ UNCHANGED <<raw, df, raised, genres, countries, ratings,
                   movie_durations, tv_seasons, directors, country_df,
                   country_count>>

Top10Directors ==
    /\ pc = "cleaned"
    /\ choice' = "Top 10 Directors"
    /\ directors' \in TopLabels(Column(df, "director"))
    /\ pc' = "done"
    /\ UNCHANGED <<raw, df, raised, genres, countries, ratings,
                   movie_durations, tv_seasons, actors, country_df,
                   country_count>>

\* Lines 281-284.  The assignment of line 282 writes the frame country_df
\* names; it reaches df only if both names are the same object.
GlobalDistributionMap ==
    /\ pc = "cleaned"
    /\ choice' = "Global Distribution (Map)"
    /\ LET copied == DataFrameCopy(df)
           rewritten ==
               AssignColumn(copied.data, "country",
                   [i \in 1..Len(copied.data) |->
                       FirstCountry(copied.data[i].country)])
       IN  /\ country_df' = rewritten
           /\ df' = IF copied.same_object THEN rewritten ELSE df
           /\ country_count' = DropUnknown(GroupBySize(rewritten))
    /\ pc' = "done"
    /\ UNCHANGED <<raw, raised, genres, countries, ratings,
                   movie_durations, tv_seasons, actors, directors>>

\* The user picks a view and Streamlit runs the script again from the top.
Rerun ==
    /\ pc \in {"done", "failed"}
    /\ choice' = ""
    /\ df' = raw
    /\ pc' = "loaded"
    /\ raised' = 0
    /\ genres' = NoResult
    /\ countries' = NoResult
    /\ ratings' = NoResult
    /\ movie_durations' = NoResult
    /\ tv_seasons' = NoResult
    /\ actors' = NoResult
    /\ directors' = NoResult
    /\ country_df' = NoResult
    /\ country_count' = NoResult
    /\ UNCHANGED raw

Next ==
    \/ DataCleaning
    \/ DatasetPreview
    \/ DataCleaningInfo
    \/ MissingDataHeatmap
    \/ MoviesVsTVShows
    \/ TitlesAddedPerYear
    \/ Top10Genres
    \/ Top10Countries
    \/ RatingsDistribution
    \/ MovieDurationDistribution
    \/ TVShowSeasonCounts
    \/ Top10Actors
    \/ Top10Directors
    \/ CorrelationHeatmap
    \/ GlobalDistributionMap
    \/ Rerun

Spec == Init /\ [][Next]_vars

(***************************************************************************)
(* Properties                                                              *)
(***************************************************************************)
\* The cleaning pass has completed in this run.
Cleaned == pc \in {"cleaned", "done"} \/ (pc = "failed" /\ raised # 54)

Rendered(view) == pc = "done" /\ choice = view

Rows == 1..Len(df)

\* The trimmed comma-separated pieces of column col from row i on, rows top
\* to bottom and pieces left to right; a missing cell has none.
RECURSIVE PiecesFrom(_, _)
PiecesFrom(col, i) ==
    IF i > Len(df) THEN <<>>
    ELSE LET parts == Split(df[i][col])
         IN  (IF df[i][col] = NaN THEN <<>>
              ELSE [k \in 1..Len(parts) |-> Strip(parts[k])])
             \o PiecesFrom(col, i + 1)

RECURSIVE SumCounts(_)
SumCounts(series) ==
    IF series = <<>> THEN 0 ELSE Head(series)[2] + SumCounts(Tail(series))

\* The four exploded rankings and the column each reads.
Exploded ==
    {<<"Top 10 Genres", "listed_in">>, <<"Top 10 Countries", "country">>,
     <<"Top 10 Actors", "cast">>, <<"Top 10 Directors", "director">>}

ResultOf(view) ==
    CASE view = "Top 10 Genres" -> genres
      [] view = "Top 10 Countries" -> countries
      [] view = "Top 10 Actors" -> actors
      [] view = "Top 10 Directors" -> directors

----------------------------------------------------------------------------
\* C1: after the cleaning pass director, cast and country are never missing:
\* a cell missing in the file holds "Unknown", a cell present in the file
\* holds its original text, and no row is added or dropped.
C1_FilledWithUnknown ==
    Cleaned =>
        /\ Len(df) = Len(raw)
        /\ \A i \in Rows : \A f \in {"director", "cast", "country"} :
              /\ df[i][f] # NaN
              /\ raw[i][f] = NaN => df[i][f] = Unknown
              /\ raw[i][f] # NaN => df[i][f] = raw[i][f]

C1_Witness ==
    /\ pc = "cleaned"
    /\ \E i \in Rows : raw[i].country = NaN /\ df[i].country = Unknown
    /\ \E i \in Rows : raw[i].director # NaN /\ df[i].director = raw[i].director

\* C2: in the four exploded rankings every returned label carries as its
\* count the number of (row, piece) places whose trimmed piece is that label,
\* "Unknown" included; when the ranking is not cut every label of every row
\* is returned; and "Drama, Comedy" on 3 rows with "Drama" on 1 row ranks
\* Drama 4, Comedy 3.
C2_EveryPieceCounts ==
    /\ \A e \in Exploded :
          Rendered(e[1]) =>
             LET all == PiecesFrom(e[2], 1)
                 res == ResultOf(e[1])
             IN  /\ \A n \in 1..Len(res) :
                       res[n][2] = Cardinality({m \in 1..Len(all) :
                                                   all[m] = res[n][1]})
                 /\ Len(res) < TopN =>
                       /\ Range(all) = {res[n][1] : n \in 1..Len(res)}
                       /\ SumCounts(res) = Len(all)
    /\ ( /\ Rendered("Top 10 Genres")
         /\ Len(df) = 4
         /\ Cardinality({i \in Rows : df[i].listed_in = Drama \o Sep \o Comedy}) = 3
         /\ Cardinality({i \in Rows : df[i].listed_in = Drama}) = 1 )
       => genres = << <<Drama, 4>>, <<Comedy, 3>> >>

C2_Witness ==
    /\ Rendered("Top 10 Genres")
    /\ Len(df) = 4
    /\ Cardinality({i \in Rows : df[i].listed_in = Drama \o Sep \o Comedy}) = 3
    /\ genres = << <<Drama, 4>>, <<Comedy, 3>> >>

\* Where label is first seen in the exploded pieces.
FirstSeen(all, label) ==
    CHOOSE m \in 1..Len(all) :
        all[m] = label /\ \A j \in 1..(m - 1) : all[j] # label

Occurrences(all, label) == Cardinality({m \in 1..Len(all) : all[m] = label})

\* C3 as stated: the ranking is ordered by count descending, labels of equal
\* count in first-seen order, and it is the first ten entries of that order
\* (all the labels when there are fewer).
C3_TiesInFirstSeenOrder ==
    \A e \in Exploded :
        Rendered(e[1]) =>
           LET all == PiecesFrom(e[2], 1)
               res == ResultOf(e[1])
               Before(x, y) ==
                   \/ Occurrences(all, x) > Occurrences(all, y)
                   \/ /\ Occurrences(all, x) = Occurrences(all, y)
                      /\ FirstSeen(all, x) < FirstSeen(all, y)
           IN  /\ Len(res) = Min(TopN, Cardinality(Range(all)))
               /\ \A a, b \in 1..Len(res) : a < b => Before(res[a][1], res[b][1])
               /\ \A x \in Range(all) \ {res[n][1] : n \in 1..Len(res)} :
                     \A n \in 1..Len(res) : Before(res[n][1], x)

\* C3 amended: the ranking is ordered by count descending, each label once
\* with its count; it holds ten entries, or all the labels when there are
\* fewer, and no label left out has a higher count than a label kept.  The
\* order among labels of equal count is not determined.
C3_CountDescending ==
    \A e \in Exploded :
        Rendered(e[1]) =>
           LET all == PiecesFrom(e[2], 1)
               res == ResultOf(e[1])
           IN  /\ Len(res) = Min(TopN, Cardinality(Range(all)))
               /\ \A n \in 1..Len(res) :
                     /\ res[n][1] \in Range(all)
                     /\ res[n][2] = Occurrences(all, res[n][1])
               /\ \A a, b \in 1..Len(res) :
                     a < b => res[a][2] >= res[b][2] /\ res[a][1] # res[b][1]
               /\ \A x \in Range(all) \ {res[n][1] : n \in 1..Len(res)} :
                     \A n \in 1..Len(res) : Occurrences(all, x) <= res[n][2]

\* A ranking cut to ten in which two labels of equal count stand against the
\* order in which they were first seen.
C3_Witness ==
    /\ Rendered("Top 10 Actors")
    /\ Len(actors) = TopN
    /\ Cardinality(Range(PiecesFrom("cast", 1))) > TopN
    /\ \E a, b \in 1..Len(actors) :
          /\ a < b
          /\ actors[a][2] = actors[b][2]
          /\ FirstSeen(PiecesFrom("cast", 1), actors[a][1])
                > FirstSeen(PiecesFrom("cast", 1), actors[b][1])

Map == "Global Distribution (Map)"

\* The trimmed first listed country of row i.
FirstListed(i) == Strip(Split(df[i].country)[1])

GroupsOf(c, t) ==
    {n \in 1..Len(country_count) :
        country_count[n].country = c /\ country_count[n].type = t}

RECURSIVE SumGroups(_)
SumGroups(cc) == IF cc = <<>> THEN 0 ELSE Head(cc).count + SumGroups(Tail(cc))

\* The table of the example: row A (France, Belgium; Movie), row B (Unknown;
\* TV Show).
ExampleTable ==
    /\ Len(df) = 2
    /\ df[1].country = France \o Sep \o Belgium /\ df[1].type = Movie
    /\ df[2].country = Unknown /\ df[2].type = TVShow

\* C4 as stated: every country a row lists has its (country, type) group, and
\* the example yields (Belgium, Movie, 1), (France, Movie, 1).
C4_EveryListedCountryGrouped ==
    Rendered(Map) =>
       /\ \A i \in Rows :
             LET parts == Split(df[i].country)
             IN  \A k \in 1..Len(parts) :
                    Strip(parts[k]) # Unknown
                       => GroupsOf(Strip(parts[k]), df[i].type) # {}
       /\ ExampleTable =>
             country_count
                = << [country |-> Belgium, type |-> Movie, count |-> 1],
                     [country |-> France, type |-> Movie, count |-> 1] >>

\* C4 amended: a row that lists several countries is never dropped for it,
\* and adds exactly 1 to the group of its first listed country alone (no
\* group when that country is "Unknown"); the example yields
\* (France, Movie, 1).
C4_FirstListedCountryGrouped ==
    Rendered(Map) =>
       /\ \A i \in Rows :
             (Len(Split(df[i].country)) > 1 /\ FirstListed(i) # Unknown)
                => Cardinality(GroupsOf(FirstListed(i), df[i].type)) = 1
       /\ SumGroups(country_count)
             = Cardinality({i \in Rows : FirstListed(i) # Unknown})
       /\ ExampleTable =>
             country_count
                = << [country |-> France, type |-> Movie, count |-> 1] >>

C4_Witness ==
    /\ Rendered(Map)
    /\ ExampleTable
    /\ country_count = << [country |-> France, type |-> Movie, count |-> 1] >>

\* C5: every returned group is keyed by a trimmed first listed country and a
\* type, its count is the number of rows with that first country and type,
\* every row whose first country is not "Unknown" is in exactly one group,
\* and the groups ascend by country, then by type.
C5_GroupedByFirstCountry ==
    Rendered(Map) =>
       /\ \A n \in 1..Len(country_count) :
             /\ country_count[n].count >= 1
             /\ country_count[n].count
                   = Cardinality({i \in Rows :
                        /\ FirstListed(i) = country_count[n].country
                        /\ df[i].type = country_count[n].type})
       /\ \A i \in Rows :
             FirstListed(i) # Unknown
                => Cardinality(GroupsOf(FirstListed(i), df[i].type)) = 1
       /\ \A m, n \in 1..Len(country_count) :
             m < n =>
                \/ StrLess(country_count[m].country, country_count[n].country)
                \/ /\ country_count[m].country = country_count[n].country
                   /\ StrLess(country_count[m].type, country_count[n].type)

\* Three groups or more, one of several rows, one country under both types.
C5_Witness ==
    /\ Rendered(Map)
    /\ Len(country_count) >= 3
    /\ \E n \in 1..Len(country_count) : country_count[n].count >= 2
    /\ \E m, n \in 1..Len(country_count) :
          /\ country_count[m].country = country_count[n].country
          /\ country_count[m].type # country_count[n].type
    /\ \E i \in Rows : Len(Split(df[i].country)) > 1

\* C6: no returned group has the country "Unknown", and the rows whose
\* country was missing in the file are in no group.
C6_NoUnknownGroup ==
    Rendered(Map) =>
       /\ \A n \in 1..Len(country_count) : country_count[n].country # Unknown
       /\ SumGroups(country_count)
             <= Cardinality({i \in Rows : raw[i].country # NaN})

C6_Witness ==
    /\ Rendered(Map)
    /\ \E i \in Rows : raw[i].country = NaN
    /\ \E i \in Rows : raw[i].country # NaN /\ FirstListed(i) = Unknown
    /\ country_count # <<>>

\* C7 as stated: rows without a rating are counted in a bucket of their own,
\* so the counts of an uncut ratings series sum to the number of rows.
C7_AbsentRatingsCounted ==
    (Rendered("Ratings Distribution") /\ Len(ratings) < TopN)
       => SumCounts(ratings) = Len(df)

\* C7 amended: the ratings series counts exact values of the rows that have
\* a rating; rows without one are left out, so the counts of an uncut series
\* sum to the number of rows with a rating.
C7_PresentRatingsCounted ==
    Rendered("Ratings Distribution") =>
       /\ \A n \in 1..Len(ratings) :
             /\ ratings[n][1] # NaN
             /\ ratings[n][2]
                   = Cardinality({i \in Rows : df[i].rating = ratings[n][1]})
       /\ Len(ratings) < TopN =>
             SumCounts(ratings)
                = Cardinality({i \in Rows : df[i].rating # NaN})

C7_Witness ==
    /\ Rendered("Ratings Distribution")
    /\ \E i \in Rows : df[i].rating = NaN
    /\ Len(ratings) >= 2

\* The number the first run of digits of v writes, NaNf when v is missing or
\* has no digit.
FirstNumber(v) ==
    IF v = NaN \/ \A i \in 1..Len(v) : v[i] \notin Digits THEN NaNf
    ELSE LET from == CHOOSE i \in 1..Len(v) :
                        v[i] \in Digits /\ \A j \in 1..(i - 1) : v[j] \notin Digits
             to == CHOOSE e \in from..Len(v) :
                      /\ \A j \in from..e : v[j] \in Digits
                      /\ e = Len(v) \/ v[e + 1] \notin Digits
         IN  Float(ParseFloat(SubSeq(v, from, to)))

\* C8 as stated: cleaning never fails on the duration column, and every
\* row's duration_num is the number of the first run of digits of duration,
\* missing when duration is missing or has no digit, and never negative.
C8_DurationNumExtracted ==
    /\ pc = "failed" => raised # 54
    /\ Cleaned =>
          \A i \in Rows :
             /\ df[i].duration_num = FirstNumber(raw[i].duration)
             /\ ~df[i].duration_num.isna => df[i].duration_num.value >= 0

\* C9: once the table is cleaned no view changes it: after any view, drawn or
\* failed, df is the cleaned file.
C9_ViewsLeaveTable ==
    (pc = "done" \/ (pc = "failed" /\ raised # 54))
       => df = WithDurationNum(FillUnknown(raw))

\* The map view has rewritten the country column of its copy.
C9_Witness ==
    /\ Rendered(Map)
    /\ \E i \in Rows : country_df[i].country # df[i].country

\* The slices of the two duration views.
Slices ==
    {<<"Movie Duration Distribution", Movie>>, <<"TV Show Season Counts", TVShow>>}

SliceOf(view) ==
    IF view = "Movie Duration Distribution" THEN movie_durations ELSE tv_seasons

\* C10: the slice holds the duration_num of the rows of the requested type
\* that have one, in table order, and nothing else; it is empty when there is
\* no such row.
C10_DurationSlice ==
    \A sl \in Slices :
        Rendered(sl[1]) =>
           LET kept == {i \in Rows :
                          df[i].type = sl[2] /\ ~df[i].duration_num.isna}
               nth(k) == CHOOSE i \in kept :
                            Cardinality({j \in kept : j < i}) = k - 1
               res == SliceOf(sl[1])
           IN  /\ Len(res) = Cardinality(kept)
               /\ \A k \in 1..Len(res) : res[k] = df[nth(k)].duration_num
               /\ kept = {} => res = <<>>

\* Movies in the table, none with a number in its duration.
C10_Witness ==
    /\ Rendered("Movie Duration Distribution")
    /\ \E i \in Rows : df[i].type = Movie
    /\ \E i \in Rows : df[i].type = TVShow /\ ~df[i].duration_num.isna
    /\ movie_durations = <<>>

=============================================================================
